---- MODULE Spec2Model ----
(***************************************************************************)
(* A model of yaml-grep.py (recursive regex search over a parsed YAML/JSON *)
(* tree) and yaml-show.py (JSON Pointer subtree extraction).               *)
(*                                                                         *)
(* Conventions                                                             *)
(*   - a Python str is a sequence of one-character strings: "a/b" is       *)
(*     <<"a", "/", "b">>, "" is <<>>;                                      *)
(*   - a parsed node is a record whose field type is the Python type name: *)
(*       [type |-> "dict", keys |-> <<k1, ..>>, vals |-> <<n1, ..>>]       *)
(*       [type |-> "list", items |-> <<n1, ..>>]                           *)
(*       [type |-> "str" | "int" | "float" | "bool" | "NoneType" | "date", *)
(*        val |-> the text of the value]                                   *)
(*     for a str, val is the string itself; for the JSON-native types it   *)
(*     is the text json.dumps gives; "date" stands for the values          *)
(*     yaml.safe_load builds that are no JSON type (a timestamp);          *)
(*   - a path token is [t |-> "str", s |-> key] or [t |-> "int", i |-> n]; *)
(*   - a compiled regex is kept as its source, a str of ordinary characters *)
(*     and of "." (any character): search finds it anywhere in the text,   *)
(*     finditer gives its leftmost non-overlapping matches; all texts are  *)
(*     lower case, so -i changes nothing;                                  *)
(*   - the search is run with --path-format pointer (the default).         *)
(***************************************************************************)
EXTENDS Integers, Sequences, FiniteSets, TLC

(***************************************************************************)
(* Bounds of the model.                                                    *)
(***************************************************************************)
\* the largest number of nodes of a document tree
MaxNodes == 4
\* the largest --max-matches value tried (0 = unlimited is always tried)
MaxCap == 1

(***************************************************************************)
(* Strings.                                                                *)
(***************************************************************************)
Range(f) == {f[i] : i \in DOMAIN f}

\* s[a:b] of Python, 0-based, for 0 <= a <= b <= len(s)
Slice(s, a, b) == SubSeq(s, a + 1, b)

\* the string p occurs in s at 0-based offset pos
LitAt(p, s, pos) ==
    /\ pos + Len(p) <= Len(s)
    /\ \A i \in 1..Len(p) : s[pos + i] = p[i]

\* the regex rx matches s at 0-based offset pos; the patterns of the model are
\* sequences of ordinary characters and of ".", which matches any character
MatchAt(rx, s, pos) ==
    /\ pos + Len(rx) <= Len(s)
    /\ \A i \in 1..Len(rx) : rx[i] = "." \/ s[pos + i] = rx[i]

\* re.Pattern.search(s) of a literal pattern: is there a match anywhere
rx_search(rx, s) == \E pos \in 0..Len(s) : MatchAt(rx, s, pos)

RECURSIVE FindFrom(_, _, _)
\* the spans of rx.finditer(s) from offset pos on: leftmost, non-overlapping;
\* an empty match is followed by a search one character further
FindFrom(rx, s, pos) ==
    IF pos > Len(s) THEN <<>>
    ELSE IF MatchAt(rx, s, pos)
         THEN <<(<<pos, pos + Len(rx)>>)>>
              \o FindFrom(rx, s, IF Len(rx) = 0 THEN pos + 1 ELSE pos + Len(rx))
         ELSE FindFrom(rx, s, pos + 1)

rx_finditer(rx, s) == FindFrom(rx, s, 0)

RECURSIVE str_replace(_, _, _)
\* s.replace(old, new) for a non-empty old: left to right, non-overlapping
str_replace(s, old, new) ==
    IF Len(s) = 0 THEN <<>>
    ELSE IF LitAt(old, s, 0)
         THEN new \o str_replace(SubSeq(s, Len(old) + 1, Len(s)), old, new)
         ELSE <<s[1]>> \o str_replace(Tail(s), old, new)

RECURSIVE str_split(_, _)
\* s.split(sep) for a one-character sep: always at least one segment
str_split(s, sep) ==
    IF \E i \in 1..Len(s) : s[i] = sep
    THEN LET i == CHOOSE j \in 1..Len(s) :
                      s[j] = sep /\ \A h \in 1..(j - 1) : s[h] # sep
         IN  <<SubSeq(s, 1, i - 1)>> \o str_split(SubSeq(s, i + 1, Len(s)), sep)
    ELSE <<s>>

RECURSIVE str_join(_, _)
\* sep.join(parts)
str_join(sep, parts) ==
    IF Len(parts) = 0 THEN <<>>
    ELSE IF Len(parts) = 1 THEN parts[1]
    ELSE parts[1] \o sep \o str_join(sep, Tail(parts))

Digits == <<"0", "1", "2", "3", "4", "5", "6", "7", "8", "9">>

RECURSIVE int_to_str(_)
\* str(n) for n >= 0
int_to_str(n) ==
    IF n < 10 THEN <<Digits[n + 1]>>
    ELSE int_to_str(n \div 10) \o <<Digits[(n % 10) + 1]>>

(***************************************************************************)
(* Trees: the values json.loads / yaml.safe_load return.                   *)
(***************************************************************************)
\* a variable that holds no document yet
NoData == [type |-> "unset"]
EmptyDict == [type |-> "dict", keys |-> <<>>, vals |-> <<>>]
EmptyList == [type |-> "list", items |-> <<>>]
PyStr(s) == [type |-> "str", val |-> s]
IsContainer(x) == x.type \in {"dict", "list"}

\* the key sequences of a dict with m entries: keys are distinct
KeySeqs(m, K) ==
    {ks \in [1..m -> K] : \A i, j \in 1..m : i # j => ks[i] # ks[j]}

RECURSIVE TreesOf(_, _, _), ForestsOf(_, _, _, _)
\* the sequences of m trees with n nodes in all
ForestsOf(n, m, S, K) ==
    IF m = 0 THEN (IF n = 0 THEN {<<>>} ELSE {})
    ELSE UNION { { <<t>> \o f : t \in TreesOf(j, S, K),
                                f \in ForestsOf(n - j, m - 1, S, K) }
                 : j \in 1..(n - m + 1) }

\* the trees with exactly n nodes, scalars from S and keys from K
TreesOf(n, S, K) ==
    IF n = 1 THEN S \cup {EmptyDict, EmptyList}
    ELSE UNION { { [type |-> "list", items |-> f]
                     : f \in ForestsOf(n - 1, m, S, K) }
                 \cup
                 { [type |-> "dict", keys |-> ks, vals |-> f]
                     : ks \in KeySeqs(m, K), f \in ForestsOf(n - 1, m, S, K) }
                 : m \in 1..(n - 1) }

TreesUpTo(n, S, K) == UNION { TreesOf(j, S, K) : j \in 1..n }

(***************************************************************************)
(* yaml-grep.py: helpers.                                                  *)
(***************************************************************************)
\* is_scalar(x): isinstance(x, (str, int, float, bool)) or x is None
is_scalar(x) == x.type \in {"str", "int", "float", "bool"} \/ x.type = "NoneType"

\* json.dumps(x, ensure_ascii=False) of a JSON-native scalar: its JSON text
json_dumps(x) ==
    CASE x.type \in {"int", "float", "bool", "NoneType"} -> x.val

\* stringify(x): a str verbatim, anything else through json.dumps
stringify(x) == IF x.type = "str" THEN x.val ELSE json_dumps(x)

\* json_pointer_escape(token): "~" -> "~0" first, then "/" -> "~1"
json_pointer_escape(token) ==
    str_replace(str_replace(token, <<"~">>, <<"~", "0">>), <<"/">>, <<"~", "1">>)

StrTok(k) == [t |-> "str", s |-> k]
IntTok(n) == [t |-> "int", i |-> n]

\* one part of to_path_pointer: str(t) of an int, the escaped key otherwise
pointer_part(t) ==
    IF t.t = "int" THEN int_to_str(t.i) ELSE json_pointer_escape(t.s)

\* to_path_pointer(tokens): "/" + "/".join(parts)
to_path_pointer(tokens) ==
    <<"/">> \o str_join(<<"/">>, [i \in 1..Len(tokens) |-> pointer_part(tokens[i])])

(***************************************************************************)
(* yaml-grep.py: colorize.                                                 *)
(***************************************************************************)
\* "\033[1m" and "\033[0m", each kept as one element of the output
ESC_ON == "ESC[1m"
ESC_OFF == "ESC[0m"

RECURSIVE raw_ranges(_, _)
\* the (start, end) of every match of every pattern, pattern by pattern
raw_ranges(s, rxs) ==
    IF Len(rxs) = 0 THEN <<>>
    ELSE rx_finditer(rxs[1], s) \o raw_ranges(s, Tail(rxs))

\* the order of Python tuples: by start, then by end
TupleLE(a, b) == a[1] < b[1] \/ (a[1] = b[1] /\ a[2] <= b[2])

RECURSIVE InsertSorted(_, _)
InsertSorted(r, sorted) ==
    IF Len(sorted) = 0 THEN <<r>>
    ELSE IF TupleLE(r, sorted[1]) THEN <<r>> \o sorted
    ELSE <<sorted[1]>> \o InsertSorted(r, Tail(sorted))

RECURSIVE sort_ranges(_)
\* ranges.sort()
sort_ranges(rs) ==
    IF Len(rs) = 0 THEN <<>> ELSE InsertSorted(rs[1], sort_ranges(Tail(rs)))

Max(a, b) == IF a >= b THEN a ELSE b
Min(a, b) == IF a <= b THEN a ELSE b

\* merge_test with the touching case forgotten: s0 < cur_e
merge_test_strict(s0, cur_e) == s0 < cur_e

\* the test that joins the next range to the current one: s0 <= cur_e
merge_test(s0, cur_e) == s0 <= cur_e

\* one iteration of the merge loop on range r, from the state (cur, merged)
merge_step(cur, merged, r) ==
    IF merge_test(r[1], cur[2])
    THEN [cur |-> <<cur[1], Max(cur[2], r[2])>>, merged |-> merged]
    ELSE [cur |-> r, merged |-> Append(merged, cur)]

RECURSIVE merge_from(_, _, _, _)
merge_from(rs, i, cur, merged) ==
    IF i > Len(rs) THEN Append(merged, cur)
    ELSE LET st == merge_step(cur, merged, rs[i])
         IN  merge_from(rs, i + 1, st.cur, st.merged)

\* the merge of a sorted, non-empty list of ranges
merge_ranges(rs) == merge_from(rs, 2, rs[1], <<>>)

RECURSIVE build_from(_, _, _, _)
\* the output pieces for merged[i..], the text before offset last being out
build_from(s, merged, i, last) ==
    IF i > Len(merged) THEN Slice(s, last, Len(s))
    ELSE Slice(s, last, merged[i][1])
         \o <<ESC_ON>> \o Slice(s, merged[i][1], merged[i][2]) \o <<ESC_OFF>>
         \o build_from(s, merged, i + 1, merged[i][2])

build_marked(s, merged) == build_from(s, merged, 1, 0)

\* colorize(s, regexes, enabled)
colorize(s, rxs, enabled) ==
    IF ~enabled THEN s
    ELSE LET ranges == raw_ranges(s, rxs)
         IN  IF Len(ranges) = 0 THEN s
             ELSE build_marked(s, merge_ranges(sort_ranges(ranges)))

(***************************************************************************)
(* Files and load_data (the same function in both programs).               *)
(***************************************************************************)
\* the words of the command lines tried: patterns, separators, file names
W_x == <<"x">>
W_paren == <<"(">>
W_dashes == <<"-", "-">>
W_stdin == <<"-">>
F_json == <<"f", ".", "j", "s", "o", "n">>
B_json == <<"b", ".", "j", "s", "o", "n">>
G_yaml == <<"g", ".", "y", "a", "m", "l">>
C_txt == <<"c", ".", "t", "x", "t">>
N_missing == <<"n">>

\* the documents in the files
DocJson ==
    [type |-> "dict",
     keys |-> << <<"a">>, <<"~">>, <<"x">> >>,
     vals |-> << [type |-> "list",
                  items |-> <<PyStr(<<"x">>), [type |-> "int", val |-> <<"1">>]>>],
                 [type |-> "dict", keys |-> << <<"a">> >>, vals |-> <<PyStr(<<"x">>)>>],
                 PyStr(<<"a">>) >>]
DocYaml == PyStr(<<"x">>)
DocTxt == [type |-> "list", items |-> <<PyStr(<<"a">>), EmptyDict>>]
DocStdin == [type |-> "dict", keys |-> << <<"b">> >>, vals |-> <<PyStr(<<"b">>)>>]

\* the bytes of a file, by what the two parsers make of them: "json" text is
\* read alike by json.loads and yaml.safe_load, "yaml" text only by
\* yaml.safe_load, "garbage" by neither
FileBytes(path) ==
    CASE path = F_json -> [fmt |-> "json", doc |-> DocJson]
      [] path = B_json -> [fmt |-> "garbage", doc |-> NoData]
      [] path = G_yaml -> [fmt |-> "yaml", doc |-> DocYaml]
      [] path = C_txt -> [fmt |-> "yaml", doc |-> DocTxt]
      [] path = W_stdin -> [fmt |-> "yaml", doc |-> DocStdin]

\* os.path.exists(path)
path_exists(path) == path \in {F_json, B_json, G_yaml, C_txt}

\* os.path.splitext(path)[1]: from the last dot on, unless the dot leads the name
splitext(path) ==
    IF \E i \in 2..Len(path) : path[i] = "."
    THEN LET i == CHOOSE j \in 2..Len(path) :
                      path[j] = "." /\ \A h \in (j + 1)..Len(path) : path[h] # "."
         IN  SubSeq(path, i, Len(path))
    ELSE <<>>

Loaded(doc) == [status |-> "ok", data |-> doc]
\* sys.exit(message): exit status 1, the message on stderr
SysExit(kind) == [status |-> "exit", code |-> 1, err |-> kind]
\* an exception nobody catches: the traceback on stderr, exit status 1
Uncaught(kind) == [status |-> "exit", code |-> 1, err |-> kind]

json_loads(bytes) ==
    IF bytes.fmt = "json" THEN Loaded(bytes.doc) ELSE Uncaught("JSONDecodeError")
yaml_safe_load(bytes) ==
    IF bytes.fmt \in {"json", "yaml"} THEN Loaded(bytes.doc) ELSE Uncaught("YAMLError")

Ext_yaml == <<".", "y", "a", "m", "l">>
Ext_yml == <<".", "y", "m", "l">>
Ext_json == <<".", "j", "s", "o", "n">>

\* load_data(path), with have_yaml the module's HAVE_YAML
load_data(path, have_yaml) ==
    IF path # W_stdin /\ ~path_exists(path) THEN Uncaught("FileNotFoundError")
    ELSE LET bytes == FileBytes(path)
             ext == splitext(path)
         IN  IF ext \in {Ext_yaml, Ext_yml} \/ (ext = <<>> /\ have_yaml)
             THEN IF ~have_yaml THEN SysExit("PyYAML not installed")
                  ELSE yaml_safe_load(bytes)
             ELSE IF ext = Ext_json THEN json_loads(bytes)
             ELSE IF json_loads(bytes).status = "ok" THEN json_loads(bytes)
             ELSE IF ~have_yaml THEN SysExit("Could not parse as JSON")
             ELSE yaml_safe_load(bytes)

(***************************************************************************)
(* yaml-show.py: parse_pointer and resolve.                                *)
(***************************************************************************)
\* unescape_token(tok): "~1" -> "/" first, then "~0" -> "~"
unescape_token(tok) ==
    str_replace(str_replace(tok, <<"~", "1">>, <<"/">>), <<"~", "0">>, <<"~">>)

RECURSIVE NonEmpty(_)
\* [p for p in parts if p != ""]
NonEmpty(parts) ==
    IF Len(parts) = 0 THEN <<>>
    ELSE (IF parts[1] # <<>> THEN <<parts[1]>> ELSE <<>>) \o NonEmpty(Tail(parts))

\* parse_pointer(ptr)
parse_pointer(ptr) ==
    IF ptr = <<>> \/ ptr = <<"/">> THEN [status |-> "ok", tokens |-> <<>>]
    ELSE IF ptr[1] # "/" THEN SysExit("Path must start with '/'")
    ELSE LET raw == Tail(ptr)
             parts == NonEmpty(str_split(raw, "/"))
         IN  [status |-> "ok",
              tokens |-> [i \in 1..Len(parts) |-> unescape_token(parts[i])]]

RECURSIVE str_rstrip(_, _)
\* s.rstrip(ch)
str_rstrip(s, ch) ==
    IF Len(s) > 0 /\ s[Len(s)] = ch THEN str_rstrip(SubSeq(s, 1, Len(s) - 1), ch)
    ELSE s

IsDigit(c) == \E d \in 1..10 : Digits[d] = c
DigitValue(c) == (CHOOSE d \in 1..10 : Digits[d] = c) - 1

\* does int(tok) return: an optional sign, then digits (the tokens tried hold
\* no blank and no underscore, which int() would also accept)
int_parses(tok) ==
    LET body == IF Len(tok) > 0 /\ tok[1] \in {"-", "+"} THEN Tail(tok) ELSE tok
    IN  Len(body) > 0 /\ \A i \in 1..Len(body) : IsDigit(body[i])

RECURSIVE digits_value(_)
digits_value(ds) ==
    IF Len(ds) = 0 THEN 0
    ELSE 10 * digits_value(SubSeq(ds, 1, Len(ds) - 1)) + DigitValue(ds[Len(ds)])

\* int(tok), when it returns
py_int(tok) ==
    IF tok[1] = "-" THEN 0 - digits_value(Tail(tok))
    ELSE IF tok[1] = "+" THEN digits_value(Tail(tok))
    ELSE digits_value(tok)

\* "/" + "/".join(tokens[:depth-1]), the place named in resolve's messages
path_so_far(tokens, depth) ==
    <<"/">> \o str_join(<<"/">>, SubSeq(tokens, 1, depth - 1))

RECURSIVE resolve_from(_, _, _)
\* the loop of resolve() from its iteration depth on, cur being the node reached
resolve_from(cur, tokens, depth) ==
    IF depth > Len(tokens) THEN [status |-> "ok", node |-> cur]
    ELSE LET tok == tokens[depth]
             at == path_so_far(tokens, depth)
         IN  IF cur.type = "list"
             THEN IF ~int_parses(tok)
                  THEN [status |-> "exit", code |-> 1, err |-> "Expected list index",
                        depth |-> depth, at |-> at, tok |-> tok]
                  ELSE IF py_int(tok) < 0 \/ py_int(tok) >= Len(cur.items)
                  THEN [status |-> "exit", code |-> 1, err |-> "Index out of range",
                        depth |-> depth, at |-> at, tok |-> tok,
                        idx |-> py_int(tok), len |-> Len(cur.items)]
                  ELSE resolve_from(cur.items[py_int(tok) + 1], tokens, depth + 1)
             ELSE IF cur.type = "dict"
             THEN IF \A i \in 1..Len(cur.keys) : cur.keys[i] # tok
                  THEN [status |-> "exit", code |-> 1, err |-> "Key not found",
                        depth |-> depth, at |-> at, tok |-> tok,
                        hint |-> SubSeq(cur.keys, 1, Min(10, Len(cur.keys)))]
                  ELSE resolve_from(
                           cur.vals[CHOOSE i \in 1..Len(cur.keys) : cur.keys[i] = tok],
                           tokens, depth + 1)
             ELSE [status |-> "exit", code |-> 1, err |-> "Cannot descend into non-container",
                   depth |-> depth, at |-> at, tok |-> tok, type |-> cur.type]

\* resolve(obj, tokens)
resolve(doc, tokens) == resolve_from(doc, tokens, 1)

(***************************************************************************)
(* State.                                                                  *)
(***************************************************************************)
VARIABLES
    \* search(): its arguments
    obj, regexes, match_keys, match_values, color, max_matches,
    \* search(): the report, and the call stack of the recursion; a frame is
    \* [obj, tokens, pc, i]: pc is "entry" before the cap test of line 199 and
    \* "body" after it, i the 1-based position of the loop over the container
    out, stack,
    \* history: how many keys and values were tested against the patterns, and
    \* for each line of out the tokens and the node it was written for
    tested, emitted,
    \* yaml-grep main(): the parsed command line (argparse's Namespace), whether
    \* PyYAML could be imported, whether stdout is a terminal, the position in
    \* main, the result of split_patterns_and_file and of load_data, the exit
    \* status of the process (-1 while it runs) and the kind of error it ended with
    args, HAVE_YAML, isatty, m_pc, patterns, file_, data, exit_status, err,
    \* yaml-show main(): the path and file arguments, the position in main,
    \* the tokens, the loaded document, the outcome of the last call
    \* (parse_pointer, load_data or resolve) and what dump printed
    s_args, s_pc, s_tokens, s_data, s_res, s_stdout,
    \* the path codec: tokens, their pointer, and the pointer decoded again
    c_tokens, c_pointer, c_decoded, c_pc,
    \* colorize(): its arguments, the position in it, and its locals
    h_s, h_rxs, h_enabled, h_pc, h_ranges, h_i, h_cur, h_merged, h_out

mainVars == <<args, HAVE_YAML, isatty, m_pc, patterns, file_, data, exit_status, err>>
showVars == <<s_args, s_pc, s_tokens, s_data, s_res, s_stdout>>
codecVars == <<c_tokens, c_pointer, c_decoded, c_pc>>
colorVars == <<h_s, h_rxs, h_enabled, h_pc, h_ranges, h_i, h_cur, h_merged, h_out>>

searchVars == <<obj, regexes, match_keys, match_values, color, max_matches,
                out, stack, tested, emitted>>

vars == <<searchVars, mainVars, showVars, codecVars, colorVars>>

(***************************************************************************)
(* yaml-grep.py: search.                                                   *)
(***************************************************************************)
Top == stack[Len(stack)]
Pop == SubSeq(stack, 1, Len(stack) - 1)
Frame(node, tokens) == [obj |-> node, tokens |-> tokens, pc |-> "entry", i |-> 1]

\* max_matches and len(out) >= max_matches
cap_reached(o) == max_matches # 0 /\ Len(o) >= max_matches

\* any_match with all() in the place of any()
all_match(s) == \A n \in 1..Len(regexes) : rx_search(regexes[n], s)

\* any(rx.search(s) for rx in regexes)
any_match(s) == \E n \in 1..Len(regexes) : rx_search(regexes[n], s)

\* value_wanted without the test of match_values
value_wanted_always(v) == is_scalar(v)

\* the guard of the keys block (line 206) and of the values blocks (215, 230)
keys_wanted == match_keys
value_wanted(v) == match_values /\ is_scalar(v)

\* the line f"{path}\t({kind})\t{shown}"
Line(path, kind, text) ==
    [path |-> path, kind |-> kind, shown |-> colorize(text, regexes, color)]

\* lines 199-200: the cap test on entering search()
SearchEntry ==
    /\ Len(stack) > 0
    /\ Top.pc = "entry"
    /\ stack' = IF cap_reached(out) THEN Pop
                ELSE [stack EXCEPT ![Len(stack)].pc = "body"]
    /\ UNCHANGED <<obj, regexes, match_keys, match_values, color, max_matches,
                   out, tested, emitted>>
    /\ UNCHANGED <<mainVars, showVars, codecVars, colorVars>>

\* lines 204-225: one iteration of the loop over a dict's items
DictIter ==
    /\ Len(stack) > 0
    /\ Top.pc = "body"
    /\ Top.obj.type = "dict"
    /\ Top.i <= Len(Top.obj.keys)
    /\ LET k == Top.obj.keys[Top.i]
           v == Top.obj.vals[Top.i]
           toks == Top.tokens \o <<StrTok(k)>>
           ks == stringify(PyStr(k))
           keyHit == keys_wanted /\ any_match(ks)
           out1 == IF keyHit
                   THEN Append(out, Line(to_path_pointer(toks), "KEY", ks))
                   ELSE out
           stopK == keyHit /\ cap_reached(out1)
           valTested == ~stopK /\ value_wanted(v)
           valHit == valTested /\ any_match(stringify(v))
           out2 == IF valHit
                   THEN Append(out1, Line(to_path_pointer(toks), "VAL", stringify(v)))
                   ELSE out1
           stopV == valHit /\ cap_reached(out2)
           next == [stack EXCEPT ![Len(stack)].i = Top.i + 1]
       IN  /\ out' = out2
           /\ emitted' = emitted
                  \o (IF keyHit THEN <<[tokens |-> toks, node |-> v]>> ELSE <<>>)
                  \o (IF valHit THEN <<[tokens |-> toks, node |-> v]>> ELSE <<>>)
           /\ tested' = tested + (IF keys_wanted THEN 1 ELSE 0)
                               + (IF valTested THEN 1 ELSE 0)
           /\ stack' = IF stopK \/ stopV THEN Pop
                       ELSE IF IsContainer(v) THEN Append(next, Frame(v, toks))
                       ELSE next
    /\ UNCHANGED <<obj, regexes, match_keys, match_values, color, max_matches>>
    /\ UNCHANGED <<mainVars, showVars, codecVars, colorVars>>

\* lines 229-239: one iteration of the loop over a list
ListIter ==
    /\ Len(stack) > 0
    /\ Top.pc = "body"
    /\ Top.obj.type = "list"
    /\ Top.i <= Len(Top.obj.items)
    /\ LET v == Top.obj.items[Top.i]
           toks == Top.tokens \o <<IntTok(Top.i - 1)>>
           valTested == value_wanted(v)
           valHit == valTested /\ any_match(stringify(v))
           out1 == IF valHit
                   THEN Append(out, Line(to_path_pointer(toks), "VAL", stringify(v)))
                   ELSE out
           stopV == valHit /\ cap_reached(out1)
           next == [stack EXCEPT ![Len(stack)].i = Top.i + 1]
       IN  /\ out' = out1
           /\ emitted' = emitted
                  \o (IF valHit THEN <<[tokens |-> toks, node |-> v]>> ELSE <<>>)
           /\ tested' = tested + (IF valTested THEN 1 ELSE 0)
           /\ stack' = IF stopV THEN Pop
                       ELSE IF IsContainer(v) THEN Append(next, Frame(v, toks))
                       ELSE next
    /\ UNCHANGED <<obj, regexes, match_keys, match_values, color, max_matches>>
    /\ UNCHANGED <<mainVars, showVars, codecVars, colorVars>>

\* the end of either loop: search() returns
LoopEnd ==
    /\ Len(stack) > 0
    /\ Top.pc = "body"
    /\ \/ Top.obj.type = "dict" /\ Top.i > Len(Top.obj.keys)
       \/ Top.obj.type = "list" /\ Top.i > Len(Top.obj.items)
    /\ stack' = Pop
    /\ UNCHANGED <<obj, regexes, match_keys, match_values, color, max_matches,
                   out, tested, emitted>>
    /\ UNCHANGED <<mainVars, showVars, codecVars, colorVars>>

\* lines 242-248: neither a dict nor a list (the root of the document)
RootScalar ==
    /\ Len(stack) > 0
    /\ Top.pc = "body"
    /\ ~IsContainer(Top.obj)
    /\ LET valTested == value_wanted(Top.obj)
           valHit == valTested /\ any_match(stringify(Top.obj))
       IN  /\ out' = IF valHit
                     THEN Append(out, Line(<<>>, "VAL", stringify(Top.obj)))
                     ELSE out
           /\ emitted' = emitted
                  \o (IF valHit THEN <<[tokens |-> <<>>, node |-> Top.obj]>> ELSE <<>>)
           /\ tested' = tested + (IF valTested THEN 1 ELSE 0)
    /\ stack' = Pop
    /\ UNCHANGED <<obj, regexes, match_keys, match_values, color, max_matches>>
    /\ UNCHANGED <<mainVars, showVars, codecVars, colorVars>>

SearchStep == SearchEntry \/ DictIter \/ ListIter \/ LoopEnd \/ RootScalar

\* search() has returned to main
SearchDone == Len(stack) = 0

(***************************************************************************)
(* The parts of the state a program that is not running leaves alone.      *)
(***************************************************************************)
IdleSearch ==
    /\ obj = NoData /\ regexes = <<>> /\ match_keys = TRUE /\ match_values = TRUE
    /\ color = FALSE /\ max_matches = 0
    /\ out = <<>> /\ stack = <<>> /\ tested = 0 /\ emitted = <<>>

IdleMain ==
    /\ args = [patterns |-> <<>>, keys_only |-> FALSE, values_only |-> FALSE,
               color |-> "auto", max_matches |-> 0, rest |-> <<>>]
    /\ HAVE_YAML = FALSE /\ isatty = FALSE /\ m_pc = "idle"
    /\ patterns = <<>> /\ file_ = <<>> /\ data = NoData
    /\ exit_status = -1 /\ err = "none"

IdleShow ==
    /\ s_args = [path |-> <<>>, file |-> <<>>] /\ s_pc = "idle"
    /\ s_tokens = <<>> /\ s_data = NoData
    /\ s_res = [status |-> "none"] /\ s_stdout = NoData

IdleCodec ==
    /\ c_tokens = <<>> /\ c_pointer = <<>> /\ c_decoded = [status |-> "none"]
    /\ c_pc = "idle"

IdleColor ==
    /\ h_s = <<>> /\ h_rxs = <<>> /\ h_enabled = FALSE /\ h_pc = "idle"
    /\ h_ranges = <<>> /\ h_i = 0 /\ h_cur = <<0, 0>> /\ h_merged = <<>>
    /\ h_out = <<>>

(***************************************************************************)
(* The search engine on its own: search(data, tokens=[], ..., out=[]) on   *)
(* every document of at most MaxNodes nodes.                               *)
(***************************************************************************)
\* the flag pairs main can pass: -k and -v exclude each other (lines 272-277)
FlagPairs == {<<TRUE, TRUE>>, <<TRUE, FALSE>>, <<FALSE, TRUE>>}

InitSearch(Docs, PatternLists, Colors) ==
    /\ obj \in Docs
    /\ regexes \in PatternLists
    /\ \E f \in FlagPairs : match_keys = f[1] /\ match_values = f[2]
    /\ color \in Colors
    /\ max_matches \in 0..MaxCap
    /\ out = <<>> /\ tested = 0 /\ emitted = <<>>
    /\ stack = <<Frame(obj, <<>>)>>
    /\ IdleMain /\ IdleShow /\ IdleCodec /\ IdleColor

\* documents with keys a, x and scalars "x", 1, null
SearchKeys == {<<"a">>, <<"x">>}
SearchScalars == {PyStr(<<"x">>),
                  [type |-> "int", val |-> <<"1">>],
                  [type |-> "NoneType", val |-> <<"n", "u", "l", "l">>]}
SearchPatterns == {<< <<"x">> >>, << <<"a">>, <<"1">> >>}

Init ==
    InitSearch(TreesUpTo(MaxNodes, SearchScalars, SearchKeys), SearchPatterns, {FALSE})

Next == SearchStep

Spec == Init /\ [][Next]_vars

(***************************************************************************)
(* The search engine over documents whose keys need escaping, or are       *)
(* empty: what yaml-show makes of the paths yaml-grep prints.              *)
(***************************************************************************)
PointerKeys == {<<>>, <<"/">>, <<"~", "1">>}
PointerScalars == {PyStr(<<"x">>)}
PointerPatterns == {<< <<"x">> >>, << <<"/">>, <<"~">> >>}

InitRoundTrip ==
    InitSearch(TreesUpTo(MaxNodes, PointerScalars, PointerKeys), PointerPatterns, BOOLEAN)

SpecRoundTrip == InitRoundTrip /\ [][Next]_vars

(***************************************************************************)
(* The search engine over documents with every type of leaf the parsers    *)
(* build: str, int, float, bool, None, and a YAML timestamp.               *)
(***************************************************************************)
TypedKeys == {<<"a">>}
TypedScalars == {PyStr(<<"x">>),
                 [type |-> "int", val |-> <<"1">>],
                 [type |-> "float", val |-> <<"1", ".", "5">>],
                 [type |-> "bool", val |-> <<"t", "r", "u", "e">>],
                 [type |-> "NoneType", val |-> <<"n", "u", "l", "l">>],
                 [type |-> "date", val |-> <<"2", "0", "2", "1">>]}
TypedPatterns == {<< <<"1">>, <<"u">>, <<"x">> >>, << <<"x">> >>}

InitTypes ==
    InitSearch(TreesUpTo(MaxNodes, TypedScalars, TypedKeys), TypedPatterns, {FALSE})

SpecTypes == InitTypes /\ [][Next]_vars

(***************************************************************************)
(* The path codec: to_path_pointer of yaml-grep, then parse_pointer of     *)
(* yaml-show.                                                              *)
(***************************************************************************)
\* the longest token list encoded
MaxTokens == 2

RECURSIVE SeqsUpTo(_, _)
\* the sequences over S of length at most n
SeqsUpTo(S, n) ==
    IF n = 0 THEN {<<>>}
    ELSE SeqsUpTo(S, n - 1)
         \cup {Append(q, x) : q \in {r \in SeqsUpTo(S, n - 1) : Len(r) = n - 1}, x \in S}

CodecTokens ==
    {StrTok(s) : s \in {<<>>, <<"a">>, <<"/">>, <<"~">>, <<"~", "1">>, <<"~", "0">>}}
    \cup {IntTok(0), IntTok(12)}

InitCodec ==
    /\ c_tokens \in SeqsUpTo(CodecTokens, MaxTokens)
    /\ c_pointer = <<>> /\ c_decoded = [status |-> "none"] /\ c_pc = "start"
    /\ IdleSearch /\ IdleMain /\ IdleShow /\ IdleColor

\* yaml-grep prints the path of the tokens
CodecEncode ==
    /\ c_pc = "start"
    /\ c_pointer' = to_path_pointer(c_tokens)
    /\ c_pc' = "encoded"
    /\ UNCHANGED <<c_tokens, c_decoded>>
    /\ UNCHANGED <<searchVars, mainVars, showVars, colorVars>>

\* yaml-show reads it back
CodecDecode ==
    /\ c_pc = "encoded"
    /\ c_decoded' = parse_pointer(c_pointer)
    /\ c_pc' = "decoded"
    /\ UNCHANGED <<c_tokens, c_pointer>>
    /\ UNCHANGED <<searchVars, mainVars, showVars, colorVars>>

NextCodec == CodecEncode \/ CodecDecode

SpecCodec == InitCodec /\ [][NextCodec]_vars

(***************************************************************************)
(* yaml-show.py: main.                                                     *)
(***************************************************************************)
\* the longest path argument tried
MaxPath == 5

PathChars == {"/", "~", "0", "1", "a", "-"}
ShowFiles == {F_json, C_txt, B_json}

InitShow ==
    /\ s_args \in [path : SeqsUpTo(PathChars, MaxPath), file : ShowFiles]
    /\ HAVE_YAML \in BOOLEAN
    /\ s_pc = "parse" /\ s_tokens = <<>> /\ s_data = NoData
    /\ s_res = [status |-> "none"] /\ s_stdout = NoData
    /\ args = [patterns |-> <<>>, keys_only |-> FALSE, values_only |-> FALSE,
               color |-> "auto", max_matches |-> 0, rest |-> <<>>]
    /\ isatty = FALSE /\ m_pc = "idle"
    /\ patterns = <<>> /\ file_ = <<>> /\ data = NoData
    /\ exit_status = -1 /\ err = "none"
    /\ IdleSearch /\ IdleCodec /\ IdleColor

showFrame == <<searchVars, codecVars, colorVars, args, HAVE_YAML, isatty, m_pc,
               patterns, file_, data, exit_status, err>>

\* line 123: tokens = parse_pointer(args.path.rstrip("/"))
ShowParse ==
    /\ s_pc = "parse"
    /\ LET r == parse_pointer(str_rstrip(s_args.path, "/"))
       IN  /\ s_res' = r
           /\ s_tokens' = IF r.status = "ok" THEN r.tokens ELSE s_tokens
           /\ s_pc' = IF r.status = "ok" THEN "load" ELSE "exit"
    /\ UNCHANGED <<s_args, s_data, s_stdout, showFrame>>

\* line 124: data = load_data(args.file)
ShowLoad ==
    /\ s_pc = "load"
    /\ LET r == load_data(s_args.file, HAVE_YAML)
       IN  /\ s_res' = r
           /\ s_data' = IF r.status = "ok" THEN r.data ELSE s_data
           /\ s_pc' = IF r.status = "ok" THEN "resolve" ELSE "exit"
    /\ UNCHANGED <<s_args, s_tokens, s_stdout, showFrame>>

\* line 125: node = resolve(data, tokens)
ShowResolve ==
    /\ s_pc = "resolve"
    /\ s_res' = resolve(s_data, s_tokens)
    /\ s_pc' = IF s_res'.status = "ok" THEN "dump" ELSE "exit"
    /\ UNCHANGED <<s_args, s_tokens, s_data, s_stdout, showFrame>>

\* lines 126-127: dump(node, fmt) prints the node
ShowDump ==
    /\ s_pc = "dump"
    /\ s_stdout' = s_res.node
    /\ s_pc' = "done"
    /\ UNCHANGED <<s_args, s_tokens, s_data, s_res, showFrame>>

NextShow == ShowParse \/ ShowLoad \/ ShowResolve \/ ShowDump

SpecShow == InitShow /\ [][NextShow]_vars

(***************************************************************************)
(* yaml-grep.py: main.                                                     *)
(***************************************************************************)
\* the longest list of positional arguments tried
MaxArgs == 3

\* rest.index("--")
FirstDashes(rest) ==
    CHOOSE i \in 1..Len(rest) :
        rest[i] = W_dashes /\ \A h \in 1..(i - 1) : rest[h] # W_dashes

\* split_patterns_and_file(rest, existing_patterns); no -e gives None, which
\* list(existing_patterns or []) turns into [], as it does an empty list
split_patterns_and_file(rest, existing) ==
    IF Len(rest) = 0 THEN SysExit("You must provide a FILE")
    ELSE IF rest[Len(rest)] = W_dashes THEN SysExit("trailing '--' without FILE")
    ELSE IF \E i \in 1..Len(rest) : rest[i] = W_dashes
    THEN [status |-> "ok",
          patterns |-> existing \o SubSeq(rest, 1, FirstDashes(rest) - 1),
          file |-> rest[FirstDashes(rest) + 1]]
    ELSE IF Len(rest) >= 2 /\ (path_exists(rest[Len(rest)]) \/ rest[Len(rest)] = W_stdin)
    THEN [status |-> "ok",
          patterns |-> existing \o SubSeq(rest, 1, Len(rest) - 1),
          file |-> rest[Len(rest)]]
    ELSE IF Len(rest) = 1 THEN SysExit("Provide FILE and at least one PATTERN")
    ELSE [status |-> "ok",
          patterns |-> existing \o SubSeq(rest, 1, Len(rest) - 1),
          file |-> rest[Len(rest)]]

\* does re.compile(p) return: of the words tried only "(" is no regex (a
\* compiled pattern is kept as its source)
re_compiles(p) == \A i \in 1..Len(p) : p[i] # "("

MainWords == {W_x, W_paren, W_dashes, W_stdin, F_json, B_json, G_yaml, C_txt, N_missing}

InitMain ==
    /\ args \in [patterns : {<<>>, <<W_x>>},
                 keys_only : BOOLEAN, values_only : BOOLEAN,
                 color : {"auto", "always", "never"},
                 max_matches : 0..MaxCap,
                 rest : SeqsUpTo(MainWords, MaxArgs)]
    \* argparse refuses -k together with -v
    /\ ~(args.keys_only /\ args.values_only)
    /\ HAVE_YAML \in BOOLEAN
    /\ isatty \in BOOLEAN
    /\ m_pc = "split"
    /\ patterns = <<>> /\ file_ = <<>> /\ data = NoData
    /\ exit_status = -1 /\ err = "none"
    /\ IdleSearch /\ IdleShow /\ IdleCodec /\ IdleColor

mainFrame == <<showVars, codecVars, colorVars>>

\* line 253: patterns, file_ = split_patterns_and_file(args.rest, args.patterns)
MainSplit ==
    /\ m_pc = "split"
    /\ LET r == split_patterns_and_file(args.rest, args.patterns)
       IN  IF r.status = "ok"
           THEN /\ patterns' = r.patterns /\ file_' = r.file /\ m_pc' = "compile"
                /\ UNCHANGED <<exit_status, err>>
           ELSE /\ exit_status' = r.code /\ err' = r.err /\ m_pc' = "exit"
                /\ UNCHANGED <<patterns, file_>>
    /\ UNCHANGED <<args, HAVE_YAML, isatty, data, searchVars, mainFrame>>

\* lines 254-260: no pattern is an error; so is a pattern that does not compile
MainCompile ==
    /\ m_pc = "compile"
    /\ IF Len(patterns) = 0
       THEN /\ exit_status' = SysExit("No patterns provided").code
            /\ err' = "No patterns provided" /\ m_pc' = "exit"
            /\ UNCHANGED regexes
       ELSE IF \E i \in 1..Len(patterns) : ~re_compiles(patterns[i])
       THEN /\ exit_status' = SysExit("invalid regex").code
            /\ err' = "invalid regex" /\ m_pc' = "exit"
            /\ UNCHANGED regexes
       ELSE /\ regexes' = patterns
            /\ m_pc' = "load"
            /\ UNCHANGED <<exit_status, err>>
    /\ UNCHANGED <<args, HAVE_YAML, isatty, patterns, file_, data, mainFrame>>
    /\ UNCHANGED <<obj, match_keys, match_values, color, max_matches, out, stack,
                   tested, emitted>>

\* line 262: data = load_data(file_)
MainLoad ==
    /\ m_pc = "load"
    /\ LET r == load_data(file_, HAVE_YAML)
       IN  IF r.status = "ok"
           THEN /\ data' = r.data /\ m_pc' = "call"
                /\ UNCHANGED <<exit_status, err>>
           ELSE /\ exit_status' = r.code /\ err' = r.err /\ m_pc' = "exit"
                /\ UNCHANGED data
    /\ UNCHANGED <<args, HAVE_YAML, isatty, patterns, file_, searchVars, mainFrame>>

\* lines 264-290: the colour and the two flags are settled, search() is called
MainCall ==
    /\ m_pc = "call"
    /\ color' = IF args.color = "always" THEN TRUE
                ELSE IF args.color = "never" THEN FALSE
                ELSE isatty
    /\ match_keys' = ~args.values_only
    /\ match_values' = ~args.keys_only
    /\ max_matches' = args.max_matches
    /\ obj' = data
    /\ out' = <<>>
    /\ stack' = <<Frame(data, <<>>)>>
    /\ m_pc' = "search"
    /\ UNCHANGED <<regexes, tested, emitted>>
    /\ UNCHANGED <<args, HAVE_YAML, isatty, patterns, file_, data, exit_status, err,
                   mainFrame>>

\* lines 292-296: the report is printed; sys.exit(0 if out else 1)
MainExit ==
    /\ m_pc = "search"
    /\ SearchDone
    /\ exit_status' = IF Len(out) > 0 THEN 0 ELSE 1
    /\ m_pc' = "exit"
    /\ UNCHANGED <<args, HAVE_YAML, isatty, patterns, file_, data, err,
                   searchVars, mainFrame>>

NextMain ==
    MainSplit \/ MainCompile \/ MainLoad \/ MainCall \/ SearchStep \/ MainExit

SpecMain == InitMain /\ [][NextMain]_vars

(***************************************************************************)
(* yaml-grep.py: colorize, statement by statement.                         *)
(***************************************************************************)
\* the longest text highlighted, and the longest pattern
MaxText == 3
MaxPattern == 2

TextChars == {"a", "b"}
ColorPatterns == SeqsUpTo(TextChars, MaxPattern)

InitColor ==
    /\ h_s \in SeqsUpTo(TextChars, MaxText)
    /\ h_rxs \in {<<p>> : p \in ColorPatterns}
                 \cup {<<p, q>> : p \in ColorPatterns, q \in ColorPatterns}
    /\ h_enabled \in BOOLEAN
    /\ h_pc = "start"
    /\ h_ranges = <<>> /\ h_i = 0 /\ h_cur = <<0, 0>> /\ h_merged = <<>>
    /\ h_out = <<>>
    /\ IdleSearch /\ IdleMain /\ IdleShow /\ IdleCodec

colorFrame == <<searchVars, mainVars, showVars, codecVars, h_s, h_rxs, h_enabled>>

\* lines 154-163: disabled, or no match: the text is returned as it is
ColorCollect ==
    /\ h_pc = "start"
    /\ IF ~h_enabled
       THEN /\ h_out' = h_s /\ h_pc' = "done" /\ UNCHANGED h_ranges
       ELSE /\ h_ranges' = raw_ranges(h_s, h_rxs)
            /\ IF Len(h_ranges') = 0
               THEN h_out' = h_s /\ h_pc' = "done"
               ELSE h_pc' = "sort" /\ UNCHANGED h_out
    /\ UNCHANGED <<h_i, h_cur, h_merged, colorFrame>>

\* lines 165-167: ranges.sort(); merged = []; cur_s, cur_e = ranges[0]
ColorSort ==
    /\ h_pc = "sort"
    /\ h_ranges' = sort_ranges(h_ranges)
    /\ h_merged' = <<>>
    /\ h_cur' = h_ranges'[1]
    /\ h_i' = 2
    /\ h_pc' = "merge"
    /\ UNCHANGED <<h_out, colorFrame>>

\* lines 168-173: one iteration of the loop over ranges[1:]
ColorMergeIter ==
    /\ h_pc = "merge"
    /\ h_i <= Len(h_ranges)
    /\ LET st == merge_step(h_cur, h_merged, h_ranges[h_i])
       IN  h_cur' = st.cur /\ h_merged' = st.merged
    /\ h_i' = h_i + 1
    /\ UNCHANGED <<h_pc, h_ranges, h_out, colorFrame>>

\* line 174: merged.append((cur_s, cur_e))
ColorMergeEnd ==
    /\ h_pc = "merge"
    /\ h_i > Len(h_ranges)
    /\ h_merged' = Append(h_merged, h_cur)
    /\ h_pc' = "build"
    /\ UNCHANGED <<h_ranges, h_i, h_cur, h_out, colorFrame>>

\* lines 176-185: the text with every merged span between the two escapes
ColorBuild ==
    /\ h_pc = "build"
    /\ h_out' = build_marked(h_s, h_merged)
    /\ h_pc' = "done"
    /\ UNCHANGED <<h_ranges, h_i, h_cur, h_merged, colorFrame>>

NextColor ==
    ColorCollect \/ ColorSort \/ ColorMergeIter \/ ColorMergeEnd \/ ColorBuild

SpecColor == InitColor /\ [][NextColor]_vars

(***************************************************************************)
(* The report the specification describes: the pre-order, document-order   *)
(* listing of the matching keys and scalar values.                         *)
(***************************************************************************)
\* the specification's Scalar: string, integer, float, boolean or null
RefScalarTypes == {"str", "int", "float", "bool", "NoneType"}

\* a text matches when any pattern of the set is found in it
RefMatches(text) == \E rx \in Range(regexes) : rx_search(rx, text)

RECURSIVE Flatten(_)
Flatten(ss) == IF Len(ss) = 0 THEN <<>> ELSE ss[1] \o Flatten(Tail(ss))

\* pointer notation of a token list: "/" and the escaped token, for each token
RefEscape(s) ==
    Flatten([i \in 1..Len(s) |->
                IF s[i] = "~" THEN <<"~", "0">>
                ELSE IF s[i] = "/" THEN <<"~", "1">>
                ELSE <<s[i]>>])
RefPath(toks) ==
    Flatten([i \in 1..Len(toks) |->
                <<"/">> \o (IF toks[i].t = "int" THEN int_to_str(toks[i].i)
                            ELSE RefEscape(toks[i].s))])

RefRec(toks, kind, text) == [path |-> RefPath(toks), kind |-> kind, text |-> text]

RefWidth(node) == IF node.type = "dict" THEN Len(node.keys) ELSE Len(node.items)

RECURSIVE DocOrderFrom(_, _, _, _, _)
\* the records of the entries i.. of container node, which lies at toks
DocOrderFrom(node, toks, i, mk, mv) ==
    IF i > RefWidth(node) THEN <<>>
    ELSE LET isDict == node.type = "dict"
             child == IF isDict THEN node.vals[i] ELSE node.items[i]
             t == toks \o <<IF isDict THEN StrTok(node.keys[i]) ELSE IntTok(i - 1)>>
         IN  (IF isDict /\ mk /\ RefMatches(node.keys[i])
              THEN <<RefRec(t, "KEY", node.keys[i])>> ELSE <<>>)
             \o (IF mv /\ child.type \in RefScalarTypes /\ RefMatches(child.val)
                 THEN <<RefRec(t, "VAL", child.val)>> ELSE <<>>)
             \o (IF IsContainer(child) THEN DocOrderFrom(child, t, 1, mk, mv) ELSE <<>>)
             \o DocOrderFrom(node, toks, i + 1, mk, mv)

\* the listing of a whole document
DocOrder(doc, mk, mv) ==
    IF IsContainer(doc) THEN DocOrderFrom(doc, <<>>, 1, mk, mv)
    ELSE IF mv /\ doc.type \in RefScalarTypes /\ RefMatches(doc.val)
         THEN <<RefRec(<<>>, "VAL", doc.val)>>
         ELSE <<>>

\* the report search() has written so far, field by field
Report == [i \in 1..Len(out) |->
              [path |-> out[i].path, kind |-> out[i].kind, text |-> out[i].shown]]

RECURSIVE OfKind(_, _)
OfKind(recs, kind) ==
    IF Len(recs) = 0 THEN <<>>
    ELSE (IF recs[1].kind = kind THEN <<recs[1]>> ELSE <<>>) \o OfKind(Tail(recs), kind)

IsPrefix(a, b) == Len(a) <= Len(b) /\ a = SubSeq(b, 1, Len(a))

(***************************************************************************)
(* Claims about the search engine.                                         *)
(***************************************************************************)
\* C1: with max_matches = N > 0 search returns at most N records, and when
\* the uncapped report has more than N records it returns exactly the first
\* N of them, in order.
C1_CapRespected ==
    (SearchDone /\ max_matches > 0 /\ ~color) =>
        LET full == DocOrder(obj, match_keys, match_values)
        IN  /\ Len(out) <= max_matches
            /\ Len(full) > max_matches => Report = SubSeq(full, 1, max_matches)

\* C8: once the report holds max_matches records (max_matches > 0), no key or
\* value is tested, nothing is emitted and no node is entered any more: the
\* only steps left are returns.
C8_HardStop ==
    [][cap_reached(out) =>
          /\ out' = out
          /\ tested' = tested
          /\ Len(stack') < Len(stack)]_vars

\* C9: with no cap the report is the pre-order document-order listing: while
\* search runs the report is a prefix of it, and when search returns it is
\* the whole of it (so it is a function of the tree, the patterns and the flags).
C9_UncappedIsDocOrder ==
    (max_matches = 0 /\ ~color /\ obj # NoData) =>
        LET full == DocOrder(obj, match_keys, match_values)
        IN  /\ IsPrefix(Report, full)
            /\ SearchDone => Report = full

\* C9's case: a key record, the value record of the same entry and then the
\* record of an element of a nested sequence, with no cap.
C9_Witness ==
    /\ SearchDone /\ max_matches = 0 /\ Len(out) = 3
    /\ out[1].kind = "KEY" /\ out[2].kind = "VAL" /\ out[1].path = out[2].path
    /\ out[3].kind = "VAL" /\ Len(emitted[3].tokens) = 2
    /\ emitted[3].tokens[2].t = "int"

\* C6: a keys-only search emits no VAL record and a values-only search no KEY
\* record, at any point of any search; with no cap the finished report holds
\* exactly the records of its kind of the listing with both kinds enabled.
C6_KindsExclusive ==
    /\ (match_keys /\ ~match_values) => \A i \in 1..Len(out) : out[i].kind = "KEY"
    /\ (~match_keys /\ match_values) => \A i \in 1..Len(out) : out[i].kind = "VAL"
    /\ (SearchDone /\ max_matches = 0 /\ ~color /\ obj # NoData) =>
          LET both == DocOrder(obj, TRUE, TRUE)
          IN  /\ (match_keys /\ ~match_values) => Report = OfKind(both, "KEY")
              /\ (~match_keys /\ match_values) => Report = OfKind(both, "VAL")

\* C6's case: a finished keys-only search that reported a key, over a document
\* that also holds a scalar value matching a pattern.
C6_Witness ==
    /\ SearchDone /\ max_matches = 0 /\ obj # NoData
    /\ match_keys /\ ~match_values /\ Len(out) > 0
    /\ \E r \in Range(DocOrder(obj, TRUE, TRUE)) : r.kind = "VAL"

\* C2: for every record search has emitted, parse_pointer of its path followed
\* by resolve on the same document succeeds and gives the node of the record.
C2_RoundTrip ==
    \A i \in 1..Len(out) :
        LET p == parse_pointer(out[i].path)
        IN  /\ p.status = "ok"
            /\ resolve(obj, p.tokens).status = "ok"
            /\ resolve(obj, p.tokens).node = emitted[i].node

RECURSIVE NodesFrom(_, _, _)
\* the nodes below the entries i.. of a container at toks, each with its tokens
NodesFrom(node, toks, i) ==
    IF i > RefWidth(node) THEN {}
    ELSE LET isDict == node.type = "dict"
             child == IF isDict THEN node.vals[i] ELSE node.items[i]
             t == toks \o <<IF isDict THEN StrTok(node.keys[i]) ELSE IntTok(i - 1)>>
         IN  {[tokens |-> t, node |-> child]}
             \cup (IF IsContainer(child) THEN NodesFrom(child, t, 1) ELSE {})
             \cup NodesFrom(node, toks, i + 1)

\* every node of a document, the root included
NodesOf(doc) ==
    {[tokens |-> <<>>, node |-> doc]}
    \cup (IF IsContainer(doc) THEN NodesFrom(doc, <<>>, 1) ELSE {})

\* C10: when values are searched, every node that is neither a mapping nor a
\* sequence and whose text matches a pattern has a VAL record in the finished
\* uncapped report, whatever its type.
C10_LeavesAreScalars ==
    (SearchDone /\ match_values /\ max_matches = 0 /\ obj # NoData) =>
        \A n \in NodesOf(obj) :
            (~IsContainer(n.node) /\ RefMatches(n.node.val)) =>
                \E i \in 1..Len(out) :
                    out[i].kind = "VAL" /\ emitted[i].tokens = n.tokens

(***************************************************************************)
(* Claims about the path codec and the resolver.                           *)
(***************************************************************************)
\* the text a token has in a path: an int as its decimal string
TokenText(tok) == IF tok.t = "int" THEN int_to_str(tok.i) ELSE tok.s

\* C3: decoding the pointer of a token list gives the tokens back (an integer
\* token as its decimal string), the empty string included.
C3_CodecInverse ==
    c_pc = "decoded" =>
        /\ c_decoded.status = "ok"
        /\ c_decoded.tokens = [i \in 1..Len(c_tokens) |-> TokenText(c_tokens[i])]

RECURSIVE RefWalk(_, _)
\* the node a list of tokens leads to, each of which resolve accepted
RefWalk(node, toks) ==
    IF Len(toks) = 0 THEN node
    ELSE IF node.type = "list" THEN RefWalk(node.items[py_int(toks[1]) + 1], Tail(toks))
    ELSE RefWalk(node.vals[CHOOSE i \in 1..Len(node.keys) : node.keys[i] = toks[1]],
                 Tail(toks))

\* C4: when resolve fails on token i, the kind of failure is the one the node
\* reached after i-1 tokens calls for, the place reported is the pointer of
\* the first i-1 tokens, the token reported is token i, and nothing is printed.
C4_ResolveErrors ==
    (s_pc = "exit" /\ s_data # NoData) =>
        LET i == s_res.depth
            before == SubSeq(s_tokens, 1, i - 1)
            node == RefWalk(s_data, before)
            tok == s_tokens[i]
        IN  /\ s_res.err =
                 (IF node.type = "list"
                  THEN (IF ~int_parses(tok) THEN "Expected list index"
                        ELSE "Index out of range")
                  ELSE IF node.type = "dict" THEN "Key not found"
                  ELSE "Cannot descend into non-container")
            /\ node.type = "list" /\ int_parses(tok) =>
                   (py_int(tok) < 0 \/ py_int(tok) >= Len(node.items))
            /\ node.type = "dict" => \A n \in 1..Len(node.keys) : node.keys[n] # tok
            /\ ~IsContainer(node) => s_res.type = node.type
            /\ s_res.at = to_path_pointer([n \in 1..Len(before) |-> StrTok(before[n])])
            /\ s_res.tok = tok
            /\ s_stdout = NoData

(***************************************************************************)
(* Claims about the exit status of yaml-grep.                              *)
(***************************************************************************)
\* C5: the process ends with 0 exactly when the report holds a record, with
\* the no-match status 1 exactly when the search finished with an empty
\* report, and with a status that is neither 0 nor 1 on every hard error.
C5_ExitStatus ==
    m_pc = "exit" =>
        /\ exit_status = 0 <=> (err = "none" /\ Len(out) > 0)
        /\ exit_status = 1 <=> (err = "none" /\ Len(out) = 0)
        /\ err # "none" => exit_status \notin {0, 1}

(***************************************************************************)
(* Claims about the highlighter.                                           *)
(***************************************************************************)
\* the offsets of the characters a span covers, and a set of spans covers
Covered(span) == {n \in 0..(MaxText + MaxText) : span[1] <= n /\ n < span[2]}
CoveredByAll(spans) == UNION {Covered(sp) : sp \in spans}

\* every match span of every pattern over the text
RawSpans == UNION {Range(rx_finditer(rx, h_s)) : rx \in Range(h_rxs)}

IsMarker(c) == c \in {ESC_ON, ESC_OFF}

RECURSIVE Unmarked(_)
\* a marked text without its markers
Unmarked(o) ==
    IF Len(o) = 0 THEN <<>>
    ELSE (IF IsMarker(o[1]) THEN <<>> ELSE <<o[1]>>) \o Unmarked(Tail(o))

RECURSIVE MarkedSpans(_, _, _)
\* the spans between an on and the next off marker, as offsets of the text:
\* n is the offset reached, start the offset of the open marker, or -1
MarkedSpans(o, n, start) ==
    IF Len(o) = 0 THEN (IF start = -1 THEN <<>> ELSE << <<start, -1>> >>)
    ELSE IF o[1] = ESC_ON
         THEN (IF start = -1 THEN <<>> ELSE << <<start, -1>> >>)
              \o MarkedSpans(Tail(o), n, n)
    ELSE IF o[1] = ESC_OFF
         THEN << <<start, n>> >> \o MarkedSpans(Tail(o), n, -1)
    ELSE MarkedSpans(Tail(o), n + 1, start)

\* C7: the merged spans are sorted and neither overlap nor touch, they cover
\* exactly the characters some match covers, and the output is the text with
\* an on/off marker pair around each merged span and nothing else; it is the
\* text itself when nothing matches.
C7_MergedSpans ==
    h_pc = "done" =>
        IF ~h_enabled \/ RawSpans = {} THEN h_out = h_s
        ELSE /\ \A i \in 1..Len(h_merged) : h_merged[i][1] <= h_merged[i][2]
             /\ \A i \in 1..(Len(h_merged) - 1) : h_merged[i + 1][1] > h_merged[i][2]
             /\ CoveredByAll(Range(h_merged)) = CoveredByAll(RawSpans)
             /\ \A sp \in RawSpans :
                    \E i \in 1..Len(h_merged) :
                        h_merged[i][1] <= sp[1] /\ sp[2] <= h_merged[i][2]
             /\ Unmarked(h_out) = h_s
             /\ MarkedSpans(h_out, 0, -1) = h_merged

\* C7's case: "aaa" with the patterns "a" and "aa" ends as one span [0, 3).
C7_Witness ==
    /\ h_pc = "done" /\ h_enabled
    /\ h_s = <<"a", "a", "a">>
    /\ h_rxs = << <<"a">>, <<"a", "a">> >>
    /\ Len(h_ranges) = 4
    /\ h_merged = << <<0, 3>> >>
    /\ h_out = <<ESC_ON, "a", "a", "a", ESC_OFF>>

====
